---- MODULE Spec2Model ----
(***************************************************************************)
(* Model of the boundary flux reconstruction of the 2p2c box model,        *)
(* dumux/boxmodels/2p2c/2p2cboundaryvariables.hh.                          *)
(*                                                                         *)
(* Scalars that only enter sums and products (pressures, densities,        *)
(* fractions, shape values, gradients, permeability) are integers.         *)
(* Saturation, porosity and the diffusion coefficients enter a division    *)
(* and a pow(), so they are IEEE-like values: an exact rational, NaN or    *)
(* +Inf.  Vectors and tensors are functions on 0..dim-1 as in the source.  *)
(***************************************************************************)
EXTENDS Integers, Sequences, FiniteSets, TLC

\* ------------------------------------------------------------------ bounds
MaxVertices == 2

\* ------------------------------------------------------- program constants
numPhases == 2
lPhaseIdx == 0
gPhaseIdx == 1
lCompIdx == 0
gCompIdx == 1
PowNum == 7
PowDen == 3

Phases == 0 .. (numPhases - 1)
Dims == {1, 2, 3}

\* ------------------------------------------------ Dune::FieldVector<Scalar,dim>
VZero(d) == [i \in 0 .. (d - 1) |-> 0]
VScale(v, s) == [i \in DOMAIN v |-> v[i] * s]
VAdd(a, b) == [i \in DOMAIN a |-> a[i] + b[i]]
VSub(a, b) == [i \in DOMAIN a |-> a[i] - b[i]]

RECURSIVE DotUpTo(_, _, _)
DotUpTo(a, b, n) == IF n = 0 THEN 0 ELSE DotUpTo(a, b, n - 1) + a[n - 1] * b[n - 1]

VDot(a, b) == DotUpTo(a, b, Cardinality(DOMAIN a))

\* ------------------------------------------------ Dune::FieldMatrix<Scalar,dim,dim>
TensorFill(d, s) == [i \in 0 .. (d - 1) |-> [j \in 0 .. (d - 1) |-> s]]

\* element access K[i][j] = v; an index pair outside the dim x dim storage
\* does not change the tensor (the write lands outside the object)
TensorSet(T, d, i, j, v) == IF i < d /\ j < d THEN [T EXCEPT ![i][j] = v] ELSE T

TensorMv(T, x) == [i \in DOMAIN T |-> VDot(T[i], x)]

\* ------------------------------------------------ IEEE-like scalar arithmetic
RECURSIVE Gcd(_, _)
Gcd(a, b) == IF b = 0 THEN a ELSE Gcd(b, a % b)

Abs(x) == IF x < 0 THEN 0 - x ELSE x

Num(n, d) ==
  LET g == Gcd(Abs(n), Abs(d))
      s == IF d < 0 THEN 0 - 1 ELSE 1
  IN [kind |-> "num", n |-> (s * n) \div g, d |-> (s * d) \div g]

NaN == [kind |-> "nan", n |-> 0, d |-> 1]
Inf == [kind |-> "inf", n |-> 1, d |-> 1]
FZero == Num(0, 1)
FOne == Num(1, 1)

FMul(a, b) ==
  IF a.kind = "nan" \/ b.kind = "nan" THEN NaN
  ELSE IF a.kind = "inf" /\ b.kind = "inf" THEN Inf
  ELSE IF a.kind = "inf" THEN (IF b.n > 0 THEN Inf ELSE NaN)
  ELSE IF b.kind = "inf" THEN (IF a.n > 0 THEN Inf ELSE NaN)
  ELSE Num(a.n * b.n, a.d * b.d)

\* a division that detects a zero divisor and yields 0 instead of Inf or NaN
FDiv_ZeroDivisorDetected(a, b) ==
  IF a.kind # "num" \/ b.kind # "num" THEN NaN
  ELSE IF b.n = 0 THEN FZero
  ELSE Num(a.n * b.d, a.d * b.n)

FDiv(a, b) ==
  IF a.kind # "num" \/ b.kind # "num" THEN NaN
  ELSE IF b.n = 0 THEN (IF a.n > 0 THEN Inf ELSE NaN)
  ELSE Num(a.n * b.d, a.d * b.n)

RECURSIVE IPow(_, _)
IPow(b, e) == IF e = 0 THEN 1 ELSE b * IPow(b, e - 1)

IRoot(m, q) == CHOOSE r \in 0 .. m : IPow(r, q) = m

\* pow(x, p/q) of <cmath>: NaN for a negative base and a fractional exponent
FPow(x, p, q) ==
  IF x.kind = "nan" THEN NaN
  ELSE IF x.kind = "inf" THEN Inf
  ELSE IF x.n < 0 THEN NaN
  ELSE Num(IPow(IRoot(x.n, q), p), IPow(IRoot(x.d, q), p))

FLeqZero(x) == x.kind = "num" /\ x.n <= 0
FGtZero(x) == (x.kind = "num" /\ x.n > 0) \/ x.kind = "inf"

\* ------------------------------------------------------------ input spaces
Ph(a, b) == [p \in Phases |-> IF p = 0 THEN a ELSE b]

\* per-vertex secondary variables (VolumeVariables and its fluidState())
VolVarsA ==
  [pressure |-> Ph(20, 23), density |-> Ph(5, 1), molarDensity |-> Ph(7, 2),
   massFraction |-> Ph(Ph(9, 1), Ph(2, 8)), moleFraction |-> Ph(Ph(6, 4), Ph(3, 7)),
   saturation |-> Ph(Num(0, 1), Num(1, 8)), porosity |-> Num(1, 8),
   diffCoeff |-> Ph(Num(1, 1), Num(3, 1))]

VolVarsB ==
  [pressure |-> Ph(10, 14), density |-> Ph(4, 2), molarDensity |-> Ph(6, 3),
   massFraction |-> Ph(Ph(8, 3), Ph(1, 9)), moleFraction |-> Ph(Ph(5, 2), Ph(4, 6)),
   saturation |-> Ph(Num(1, 8), Num(0, 1)), porosity |-> Num(0, 1),
   diffCoeff |-> Ph(Num(2, 1), Num(1, 1))]

VolVarsC ==
  [pressure |-> Ph(31, 35), density |-> Ph(6, 3), molarDensity |-> Ph(9, 4),
   massFraction |-> Ph(Ph(7, 5), Ph(4, 6)), moleFraction |-> Ph(Ph(8, 1), Ph(2, 5)),
   saturation |-> Ph(Num(1, 8), Num(1, 1)), porosity |-> Num(1, 1),
   diffCoeff |-> Ph(Num(0, 1), Num(2, 1))]

VolVarsD ==
  [pressure |-> Ph(12, 11), density |-> Ph(3, 4), molarDensity |-> Ph(5, 1),
   massFraction |-> Ph(Ph(6, 4), Ph(3, 7)), moleFraction |-> Ph(Ph(9, 3), Ph(1, 8)),
   saturation |-> Ph(Num(0 - 1, 1), Num(1, 1)), porosity |-> Num(0 - 1, 1),
   diffCoeff |-> Ph(Num(1, 1), Num(1, 2))]

VolVarsSet == {VolVarsA, VolVarsB, VolVarsC, VolVarsD}

\* shape-function gradients, shape values and normals of a boundary face
GradG(d) == [i \in 0 .. (d - 1) |-> i + 1]
GradH(d) == [i \in 0 .. (d - 1) |-> IF i = d - 1 THEN 0 - 2 ELSE 1]

VertexGeomSet(d) ==
  { [grad |-> GradG(d), shapeValue |-> 1],
    [grad |-> VScale(GradG(d), 0 - 1), shapeValue |-> 0],
    [grad |-> GradH(d), shapeValue |-> 2] }

NormalSet(d) ==
  { [i \in 0 .. (d - 1) |-> IF i = d - 1 THEN 1 ELSE 0],
    [i \in 0 .. (d - 1) |-> IF i = 0 THEN 0 - 1 ELSE 1] }

FaceSet(d, nv) ==
  { [grad |-> [v \in 0 .. (nv - 1) |-> vg[v].grad],
     shapeValue |-> [v \in 0 .. (nv - 1) |-> vg[v].shapeValue],
     normal |-> n] :
      vg \in [0 .. (nv - 1) -> VertexGeomSet(d)], n \in NormalSet(d) }

\* the element's other boundary face
OtherFace(d, nv) ==
  [grad |-> [v \in 0 .. (nv - 1) |-> [i \in 0 .. (d - 1) |-> 5 + v]],
   shapeValue |-> [v \in 0 .. (nv - 1) |-> 3],
   normal |-> [i \in 0 .. (d - 1) |-> 2]]

BoundaryFaceIdxSet == {0, 1}

\* intrinsic permeability per sub-control volume (spatial parameters)
PermSet(nv) ==
  { [v \in 0 .. (nv - 1) |-> v + 1],
    [v \in 0 .. (nv - 1) |-> 2 * (nv - v) + 1] }

GravityOf(d) == [i \in 0 .. (d - 1) |-> IF i = d - 1 THEN 0 - 10 ELSE 0]

\* content of the object's storage before the constructor body runs
GarbageSet == {0 - 3, 7}

\* where the write to a tensor element outside the storage can land
ClobberSet == {"none", "tmp"}

\* ------------------------------------------------------------------- state
VARIABLES
  dim,                \* GridView::dimension
  EnableGravity,      \* GET_PARAM(TypeTag, bool, EnableGravity)
  problem,            \* const Problem &: gravity(), spatialParameters()
  fvElemGeom_,        \* const FVElementGeometry & (the referenced geometry)
  boundaryFaceIdx,    \* constructor argument
  elemDat,            \* const ElementVolumeVariables &
  scvIdx,             \* constructor argument
  boundaryFace_, scvIdx_,
  potentialGrad_, concentrationGrad_, molarConcGrad_,
  pressureAtIP_, densityAtIP_, molarDensityAtIP_,
  KmvpNormal_, porousDiffCoeff_,
  tmp, k, K,          \* locals of calculateBoundaryValues_
  idx, phaseIdx, pc,
  oobWrite,           \* tensor index pairs written outside the storage
  twin,               \* a second construction on inputs that differ only away from scvIdx
  \* TwoPTwoCNIFluxVariables: constructor arguments, members and locals
  scvfIdx,            \* constructor argument: index of the sub-control-volume face
  subContVolFace,     \* elemGeom.subContVolFace
  temperature,        \* elemDat[vertIdx].temperature()
  heatLaw,            \* problem.spatialParameters().matrixHeatFlux
  temperatureGrad, niTmp, vertIdx,
  normalMatrixHeatFlux_,
  niPc,
  objB,               \* a second TwoPTwoCBoundaryVariables built concurrently on another face
  wap,                \* WaterAirProblem: the last boundary/initial condition call
  asm,                \* AssemblerPDELab: matrix_, constraintsTrafo_, and the arguments u, f
  osp                 \* ObstacleSpatialParameters: the last lookup

inputs == <<dim, EnableGravity, problem, fvElemGeom_, boundaryFaceIdx, elemDat, scvIdx>>
members == <<boundaryFace_, scvIdx_, potentialGrad_, concentrationGrad_, molarConcGrad_,
             pressureAtIP_, densityAtIP_, molarDensityAtIP_, KmvpNormal_, porousDiffCoeff_>>
locals == <<tmp, k, K, idx, phaseIdx, pc, oobWrite>>
niInputs == <<scvfIdx, subContVolFace, temperature, heatLaw>>
niState == <<temperatureGrad, niTmp, vertIdx, normalMatrixHeatFlux_, niPc>>
niVars == <<niInputs, niState>>
vars == <<inputs, members, locals, twin, niVars, objB, wap, asm, osp>>

NumVertices == fvElemGeom_.numVertices
BoundaryFace == fvElemGeom_.boundaryFace[boundaryFace_]

\* the storage of the object and of the locals before the constructor runs
InitObject(d, g) ==
    /\ boundaryFace_ = 0
    /\ scvIdx_ = 0
    /\ potentialGrad_ = [p \in Phases |-> [i \in 0 .. (d - 1) |-> g]]
    /\ concentrationGrad_ = [p \in Phases |-> [i \in 0 .. (d - 1) |-> g]]
    /\ molarConcGrad_ = [p \in Phases |-> [i \in 0 .. (d - 1) |-> g]]
    /\ pressureAtIP_ = [p \in Phases |-> g]
    /\ densityAtIP_ = [p \in Phases |-> g]
    /\ molarDensityAtIP_ = [p \in Phases |-> g]
    /\ KmvpNormal_ = [p \in Phases |-> g]
    /\ porousDiffCoeff_ = [p \in Phases |-> Num(g, 1)]
    /\ tmp = VZero(d)
    /\ k = 0
    /\ K = TensorFill(d, 0)
    /\ idx = 0
    /\ phaseIdx = 0
    /\ pc = "start"
    /\ oobWrite = {}

InitInputs(d, nv, g, faces, faceIdxs) ==
    /\ dim = d
    /\ EnableGravity \in BOOLEAN
    /\ \E perm \in PermSet(nv) :
         problem = [gravity |-> GravityOf(d), intrinsicPermeability |-> perm]
    /\ boundaryFaceIdx \in faceIdxs
    /\ \E f \in faces :
         fvElemGeom_ =
           [numVertices |-> nv,
            boundaryFace |-> [b \in BoundaryFaceIdxSet |->
                                IF b = boundaryFaceIdx THEN f ELSE OtherFace(d, nv)]]
    /\ elemDat \in [0 .. (nv - 1) -> VolVarsSet]
    /\ scvIdx \in 0 .. (nv - 1)
    /\ InitObject(d, g)

NoTwin == [on |-> FALSE]
NoObj == [on |-> FALSE]
NoWap == [op |-> "none"]
NoAsm == [on |-> FALSE]
NoOsp == [op |-> "none"]

\* no non-isothermal object is being constructed
NoNI ==
  /\ scvfIdx = 0
  /\ subContVolFace = <<>>
  /\ temperature = <<>>
  /\ heatLaw = [kind |-> "none"]
  /\ temperatureGrad = <<>>
  /\ niTmp = <<>>
  /\ vertIdx = 0
  /\ normalMatrixHeatFlux_ = 0
  /\ niPc = "off"

Init ==
  \E d \in Dims, nv \in 1 .. MaxVertices, g \in GarbageSet :
    /\ InitInputs(d, nv, g, FaceSet(d, nv), BoundaryFaceIdxSet)
    /\ twin = NoTwin
    /\ NoNI
    /\ objB = NoObj
    /\ wap = NoWap /\ asm = NoAsm /\ osp = NoOsp

\* the second construction gets the same inputs except saturation, porosity,
\* diffusion coefficient and intrinsic permeability at the vertices other than scvIdx
TwinElemDat(other) ==
  [v \in DOMAIN elemDat |->
     IF v = scvIdx THEN elemDat[v]
     ELSE [elemDat[v] EXCEPT !.saturation = other[v].saturation,
                             !.porosity = other[v].porosity,
                             !.diffCoeff = other[v].diffCoeff]]

TwinPermeability(shift) ==
  [v \in DOMAIN elemDat |->
     IF v = scvIdx THEN problem.intrinsicPermeability[v]
     ELSE problem.intrinsicPermeability[v] + shift]

PermShiftSet == {0, 4}

PlainFaceSet(d, nv) == { f \in FaceSet(d, nv) : \A v \in 0 .. (nv - 1) : f.grad[v] = GradG(d) }

InitPair ==
  \E d \in Dims, nv \in 1 .. MaxVertices :
    /\ InitInputs(d, nv, 7, PlainFaceSet(d, nv), {0})
    /\ \E other \in [0 .. (nv - 1) -> VolVarsSet], shift \in PermShiftSet :
         twin = [on |-> TRUE,
                 elemDat |-> TwinElemDat(other),
                 intrinsicPermeability |-> TwinPermeability(shift),
                 k |-> 0,
                 KmvpNormal_ |-> [p \in Phases |-> 7],
                 porousDiffCoeff_ |-> [p \in Phases |-> Num(7, 1)]]
    /\ NoNI
    /\ objB = NoObj
    /\ wap = NoWap /\ asm = NoAsm /\ osp = NoOsp

\* ------------------------------------------------- pieces of the computation
\* tmp = feGrad; tmp *= s; acc += tmp
GradTerm(feGrad, s) == VScale(feGrad, s)
\* "=" in place of "+=": only the last vertex contributes
Accumulate_Overwrite(acc, feGrad, s) == GradTerm(feGrad, s)

Accumulate(acc, feGrad, s) == VAdd(acc, GradTerm(feGrad, s))

\* the shape value left out of the product
Interpolate_Unweighted(acc, value, shapeValue) == acc + value

\* acc += value * shapeValue
Interpolate(acc, value, shapeValue) == acc + value * shapeValue

\* the density of the other phase used for the buoyancy term
GravityTerm_OtherPhase(t, ph) ==
  IF EnableGravity THEN VScale(problem.gravity, densityAtIP_[(ph + 1) % numPhases]) ELSE t

\* the vector subtracted from the pressure gradient of phase ph; t is the
\* content of tmp when the phase loop body is entered
GravityTerm(t, ph) ==
  IF EnableGravity THEN VScale(problem.gravity, densityAtIP_[ph]) ELSE t

IntrinsicPermeability(perm, scv) == perm[scv]

\* Tensor K(0); K[0][0] = K[1][1] = k;
PermeabilityTensor(d, kk) == TensorSet(TensorSet(TensorFill(d, 0), d, 1, 1, kk), d, 0, 0, kk)

\* index pairs of that statement which lie outside a d x d tensor
TensorOutOfBounds(d) == { ij \in {<<1, 1>>, <<0, 0>>} : ~(ij[1] < d /\ ij[2] < d) }

\* Vector Kmvp; K.mv(potentialGrad, Kmvp); - (Kmvp * normal)
DarcyNormal(T, pg, normal) == 0 - VDot(TensorMv(T, pg), normal)

\* the volume variables of vertex 0 instead of those of scvIdx_
VertDat_FirstVertex(ed, scv) == ed[0]

VertDat(ed, scv) == ed[scv]

\* 1/porosity in place of 1/porosity^2
Tortuosity_NoSquare(vertDat, ph) ==
  FMul(FDiv(FOne, vertDat.porosity),
       FPow(FMul(vertDat.porosity, vertDat.saturation[ph]), PowNum, PowDen))

Tortuosity(vertDat, ph) ==
  FMul(FDiv(FOne, FMul(vertDat.porosity, vertDat.porosity)),
       FPow(FMul(vertDat.porosity, vertDat.saturation[ph]), PowNum, PowDen))

\* "< 0" in place of "<= 0" in the saturation guard
PorousDiffCoeffOf_StrictGuard(vertDat, ph) ==
  IF vertDat.saturation[ph].n < 0
  THEN FZero
  ELSE FMul(FMul(FMul(vertDat.porosity, vertDat.saturation[ph]), Tortuosity(vertDat, ph)),
            vertDat.diffCoeff[ph])

PorousDiffCoeffOf(vertDat, ph) ==
  IF FLeqZero(vertDat.saturation[ph])
  THEN FZero
  ELSE FMul(FMul(FMul(vertDat.porosity, vertDat.saturation[ph]), Tortuosity(vertDat, ph)),
            vertDat.diffCoeff[ph])

\* ----------------------------------------------------------------- actions
\* constructor: member initialisers, boundaryFace_, the zeroing loop, and the
\* entry of calculateBoundaryValues_ (Vector tmp(0.0))
ConstructBody ==
  /\ pc = "start"
  /\ scvIdx_' = scvIdx
  /\ boundaryFace_' = boundaryFaceIdx
  /\ densityAtIP_' = [p \in Phases |-> 0]
  /\ pressureAtIP_' = [p \in Phases |-> 0]
  /\ molarDensityAtIP_' = [p \in Phases |-> 0]
  /\ potentialGrad_' = [p \in Phases |-> VZero(dim)]
  /\ concentrationGrad_' = [p \in Phases |-> VZero(dim)]
  /\ molarConcGrad_' = [p \in Phases |-> VZero(dim)]
  /\ KmvpNormal_' = [p \in Phases |-> 0]
  /\ porousDiffCoeff_' = [p \in Phases |-> FZero]
  /\ tmp' = VZero(dim)
  /\ idx' = 0
  /\ pc' = IF 0 < NumVertices THEN "vertices" ELSE "phases"
  /\ UNCHANGED <<inputs, k, K, phaseIdx, oobWrite>>

\* one pass of the loop over the vertices
VertexStepBody ==
  /\ pc = "vertices"
  /\ idx < NumVertices
  /\ LET feGrad == BoundaryFace.grad[idx]
         fs == elemDat[idx]
         sv == BoundaryFace.shapeValue[idx]
     IN /\ potentialGrad_' =
             [p \in Phases |-> Accumulate(potentialGrad_[p], feGrad, fs.pressure[p])]
        /\ concentrationGrad_' =
             [concentrationGrad_ EXCEPT
                ![lPhaseIdx] = Accumulate(@, feGrad, fs.massFraction[lPhaseIdx][gCompIdx]),
                ![gPhaseIdx] = Accumulate(@, feGrad, fs.massFraction[gPhaseIdx][lCompIdx])]
        /\ molarConcGrad_' =
             [molarConcGrad_ EXCEPT
                ![lPhaseIdx] = Accumulate(@, feGrad, fs.moleFraction[lPhaseIdx][gCompIdx]),
                ![gPhaseIdx] = Accumulate(@, feGrad, fs.moleFraction[gPhaseIdx][lCompIdx])]
        /\ tmp' = GradTerm(feGrad, fs.moleFraction[gPhaseIdx][lCompIdx])
        /\ pressureAtIP_' = [p \in Phases |-> Interpolate(pressureAtIP_[p], fs.pressure[p], sv)]
        /\ densityAtIP_' = [p \in Phases |-> Interpolate(densityAtIP_[p], fs.density[p], sv)]
        /\ molarDensityAtIP_' =
             [p \in Phases |-> Interpolate(molarDensityAtIP_[p], fs.molarDensity[p], sv)]
  /\ idx' = idx + 1
  /\ phaseIdx' = 0
  /\ pc' = IF idx + 1 < NumVertices THEN "vertices" ELSE "phases"
  /\ UNCHANGED <<inputs, boundaryFace_, scvIdx_, KmvpNormal_, porousDiffCoeff_, k, K, oobWrite>>

\* one pass of the loop over the phases
PhaseStepBody ==
  /\ pc = "phases"
  /\ phaseIdx < numPhases
  /\ LET t == GravityTerm(tmp, phaseIdx)
         pg == VSub(potentialGrad_[phaseIdx], t)
         kk == IntrinsicPermeability(problem.intrinsicPermeability, scvIdx_)
         T == PermeabilityTensor(dim, kk)
         oob == TensorOutOfBounds(dim)
     IN /\ potentialGrad_' = [potentialGrad_ EXCEPT ![phaseIdx] = pg]
        /\ k' = kk
        /\ K' = T
        /\ oobWrite' = oobWrite \cup oob
        /\ IF oob = {}
           THEN tmp' = t
           ELSE \E c \in ClobberSet :
                  tmp' = IF c = "tmp" THEN [t EXCEPT ![0] = kk] ELSE t
        /\ KmvpNormal_' = [KmvpNormal_ EXCEPT ![phaseIdx] = DarcyNormal(T, pg, BoundaryFace.normal)]
        /\ porousDiffCoeff_' =
             [porousDiffCoeff_ EXCEPT ![phaseIdx] = PorousDiffCoeffOf(VertDat(elemDat, scvIdx_), phaseIdx)]
  /\ phaseIdx' = phaseIdx + 1
  /\ pc' = IF phaseIdx + 1 < numPhases THEN "phases" ELSE "done"
  /\ UNCHANGED <<inputs, boundaryFace_, scvIdx_, concentrationGrad_, molarConcGrad_,
                 pressureAtIP_, densityAtIP_, molarDensityAtIP_, idx>>

Construct == ConstructBody /\ UNCHANGED <<twin, niVars, objB, wap, asm, osp>>
VertexStep == VertexStepBody /\ UNCHANGED <<twin, niVars, objB, wap, asm, osp>>
PhaseStep == PhaseStepBody /\ UNCHANGED <<twin, niVars, objB, wap, asm, osp>>

Next == Construct \/ VertexStep \/ PhaseStep

Spec == Init /\ [][Next]_vars

\* the same three steps, taken by both constructions together; the second
\* one shares geometry, pressures, densities and fractions with the first,
\* hence also its potential gradient
ConstructPair ==
  /\ ConstructBody
  /\ twin' = [twin EXCEPT !.KmvpNormal_ = [p \in Phases |-> 0],
                          !.porousDiffCoeff_ = [p \in Phases |-> FZero]]
  /\ UNCHANGED <<niVars, objB, wap, asm, osp>>

VertexStepPair == VertexStepBody /\ UNCHANGED <<twin, niVars, objB, wap, asm, osp>>

PhaseStepPair ==
  /\ PhaseStepBody
  /\ LET kk == IntrinsicPermeability(twin.intrinsicPermeability, scvIdx_)
     IN twin' = [twin EXCEPT
                   !.k = kk,
                   !.KmvpNormal_[phaseIdx] =
                      DarcyNormal(PermeabilityTensor(dim, kk), potentialGrad_'[phaseIdx],
                                  BoundaryFace.normal),
                   !.porousDiffCoeff_[phaseIdx] =
                      PorousDiffCoeffOf(VertDat(twin.elemDat, scvIdx_), phaseIdx)]
  /\ UNCHANGED <<niVars, objB, wap, asm, osp>>

NextPair == ConstructPair \/ VertexStepPair \/ PhaseStepPair

SpecPair == InitPair /\ [][NextPair]_vars

TypeOK == pc \in {"start", "vertices", "phases", "done"}

\* ------------------------------------------------ reference sums of the claims
RECURSIVE GradSum(_, _, _)
GradSum(face, coef, n) ==
  IF n = 0 THEN VZero(dim)
  ELSE VAdd(GradSum(face, coef, n - 1), VScale(face.grad[n - 1], coef[n - 1]))

RECURSIVE ShapeSum(_, _, _)
ShapeSum(face, coef, n) ==
  IF n = 0 THEN 0 ELSE ShapeSum(face, coef, n - 1) + face.shapeValue[n - 1] * coef[n - 1]

Vertices == 0 .. (NumVertices - 1)
TheFace == fvElemGeom_.boundaryFace[boundaryFaceIdx]
RawPressureGrad(ph) == GradSum(TheFace, [v \in Vertices |-> elemDat[v].pressure[ph]], NumVertices)
Done == pc = "done"

UniformField ==
  \A v \in Vertices :
    /\ elemDat[v].pressure = elemDat[0].pressure
    /\ elemDat[v].massFraction = elemDat[0].massFraction
    /\ elemDat[v].moleFraction = elemDat[0].moleFraction

GradientsSumToZero == GradSum(TheFace, [v \in Vertices |-> 1], NumVertices) = VZero(dim)

\* C1: with gravity disabled the potential gradient of every phase is exactly
\* the raw pressure gradient sum_idx grad[idx]*pressure_idx(phase).
C1_GravityOffIsRawGradient ==
  (Done /\ ~EnableGravity) => \A ph \in Phases : potentialGrad_[ph] = RawPressureGrad(ph)

\* C2: a phase whose saturation at the designated sub-control volume is <= 0
\* has porousDiffCoeff exactly 0, whatever the porosity and diffusion coefficient.
C2_AbsentPhaseNoDiffusion ==
  Done => \A ph \in Phases :
            FLeqZero(elemDat[scvIdx].saturation[ph]) => porousDiffCoeff_[ph] = FZero

C2_Witness ==
  /\ Done
  /\ \E ph \in Phases :
       /\ elemDat[scvIdx].saturation[ph] = FZero
       /\ elemDat[scvIdx].porosity = FZero
       /\ porousDiffCoeff_[ph] = FZero

\* C3: a uniform field, gravity disabled and shape gradients summing to zero
\* give zero potential, concentration and molar concentration gradients and
\* KmvpNormal = 0 for every phase.
C3_UniformFieldZero ==
  (Done /\ UniformField /\ ~EnableGravity /\ GradientsSumToZero) =>
    \A ph \in Phases :
      /\ potentialGrad_[ph] = VZero(dim)
      /\ concentrationGrad_[ph] = VZero(dim)
      /\ molarConcGrad_[ph] = VZero(dim)
      /\ KmvpNormal_[ph] = 0

\* C4: KmvpNormal = -((K * potentialGrad) . normal), so for k > 0 a potential
\* gradient with negative normal component gives a positive KmvpNormal and one
\* with positive normal component a negative KmvpNormal.
C4_DarcySignConvention ==
  Done => \A ph \in Phases :
            /\ KmvpNormal_[ph] = 0 - VDot(TensorMv(K, potentialGrad_[ph]), TheFace.normal)
            /\ (k > 0 /\ VDot(potentialGrad_[ph], TheFace.normal) < 0) => KmvpNormal_[ph] > 0
            /\ (k > 0 /\ VDot(potentialGrad_[ph], TheFace.normal) > 0) => KmvpNormal_[ph] < 0

\* C5: the permeability tensor is k on the whole diagonal and 0 elsewhere for
\* dim 1, 2 and 3, K * potentialGrad = k * potentialGrad, and no tensor entry
\* outside 0..dim-1 is written.
C5_IsotropicTensor ==
  Done =>
    /\ K = [i \in 0 .. (dim - 1) |-> [j \in 0 .. (dim - 1) |-> IF i = j THEN k ELSE 0]]
    /\ \A ph \in Phases : TensorMv(K, potentialGrad_[ph]) = VScale(potentialGrad_[ph], k)
    /\ oobWrite = {}

\* C6: with gravity enabled the potential gradient of a phase is the raw
\* pressure gradient minus gravity times that phase's fully accumulated
\* integration-point density.
C6_GravityOnBuoyancy ==
  (Done /\ EnableGravity) =>
    \A ph \in Phases :
      /\ densityAtIP_[ph] = ShapeSum(TheFace, [v \in Vertices |-> elemDat[v].density[ph]], NumVertices)
      /\ potentialGrad_[ph] = VSub(RawPressureGrad(ph), VScale(problem.gravity, densityAtIP_[ph]))

C6_Witness ==
  /\ Done
  /\ EnableGravity
  /\ NumVertices >= 2
  /\ densityAtIP_[lPhaseIdx] # densityAtIP_[gPhaseIdx]
  /\ densityAtIP_[lPhaseIdx] # 0
  /\ \A ph \in Phases : potentialGrad_[ph] # RawPressureGrad(ph)

\* C7: concentrationGrad and molarConcGrad of a phase are the sums over all
\* vertices of grad[idx] times the mass (mole) fraction of the minor component
\* of that phase, each vertex once, starting from zero.
C7_MinorComponentGradients ==
  Done =>
    /\ concentrationGrad_[lPhaseIdx] =
         GradSum(TheFace, [v \in Vertices |-> elemDat[v].massFraction[lPhaseIdx][gCompIdx]], NumVertices)
    /\ concentrationGrad_[gPhaseIdx] =
         GradSum(TheFace, [v \in Vertices |-> elemDat[v].massFraction[gPhaseIdx][lCompIdx]], NumVertices)
    /\ molarConcGrad_[lPhaseIdx] =
         GradSum(TheFace, [v \in Vertices |-> elemDat[v].moleFraction[lPhaseIdx][gCompIdx]], NumVertices)
    /\ molarConcGrad_[gPhaseIdx] =
         GradSum(TheFace, [v \in Vertices |-> elemDat[v].moleFraction[gPhaseIdx][lCompIdx]], NumVertices)

C7_Witness ==
  /\ Done
  /\ NumVertices >= 2
  /\ elemDat[0] # elemDat[1]
  /\ \A ph \in Phases : concentrationGrad_[ph] # VZero(dim) /\ molarConcGrad_[ph] # VZero(dim)
  /\ concentrationGrad_[lPhaseIdx] # concentrationGrad_[gPhaseIdx]

\* C8: integration-point pressure, density and molar density are the sums over
\* the vertices of shapeValue[idx] times the vertex value; with one density at
\* all vertices and shape values summing to 1 densityAtIP is that density.
C8_IntegrationPointInterpolation ==
  Done =>
    \A ph \in Phases :
      /\ pressureAtIP_[ph] = ShapeSum(TheFace, [v \in Vertices |-> elemDat[v].pressure[ph]], NumVertices)
      /\ densityAtIP_[ph] = ShapeSum(TheFace, [v \in Vertices |-> elemDat[v].density[ph]], NumVertices)
      /\ molarDensityAtIP_[ph] =
           ShapeSum(TheFace, [v \in Vertices |-> elemDat[v].molarDensity[ph]], NumVertices)
      /\ ((\A v \in Vertices : elemDat[v].density[ph] = elemDat[0].density[ph])
            /\ ShapeSum(TheFace, [v \in Vertices |-> 1], NumVertices) = 1)
           => densityAtIP_[ph] = elemDat[0].density[ph]

C8_Witness ==
  /\ Done
  /\ NumVertices >= 2
  /\ elemDat[0] # elemDat[1]
  /\ \A v \in Vertices : TheFace.shapeValue[v] # 0
  /\ \E v \in Vertices : TheFace.shapeValue[v] > 1

\* C10: for a phase with saturation Sw > 0 at the designated sub-control
\* volume porousDiffCoeff = phi*Sw*tau*diffCoeff with
\* tau = (phi*Sw)^(7/3) / phi^2 (pow as in the code, undefined for a negative
\* base); it is strictly positive when phi > 0 and diffCoeff > 0.
C10_EffectiveDiffusion ==
  Done =>
    \A ph \in Phases :
      LET phi == elemDat[scvIdx].porosity
          Sw == elemDat[scvIdx].saturation[ph]
          D == elemDat[scvIdx].diffCoeff[ph]
          tau == FDiv(FPow(FMul(phi, Sw), 7, 3), FMul(phi, phi))
      IN FGtZero(Sw) =>
           /\ porousDiffCoeff_[ph] = FMul(FMul(FMul(phi, Sw), tau), D)
           /\ (FGtZero(phi) /\ FGtZero(D)) => FGtZero(porousDiffCoeff_[ph])

C10_Witness ==
  /\ Done
  /\ \E ph \in Phases :
       /\ elemDat[scvIdx].saturation[ph] = Num(1, 8)
       /\ elemDat[scvIdx].porosity = Num(1, 8)
       /\ elemDat[scvIdx].diffCoeff[ph] = Num(3, 1)
       /\ porousDiffCoeff_[ph] = Num(3, 16384)

\* C9: intrinsic permeability, saturation, porosity and diffusion coefficient
\* are read at the sub-control volume scvIdx only: their values at the other
\* vertices influence neither the permeability factor of KmvpNormal nor
\* porousDiffCoeff.
C9_OwnSideLookup ==
  Done =>
    /\ k = problem.intrinsicPermeability[scvIdx]
    /\ twin.k = k
    /\ \A ph \in Phases :
         /\ twin.KmvpNormal_[ph] = KmvpNormal_[ph]
         /\ twin.porousDiffCoeff_[ph] = porousDiffCoeff_[ph]

C9_Witness ==
  /\ Done
  /\ \E v \in Vertices :
       /\ v # scvIdx
       /\ twin.elemDat[v].porosity # elemDat[v].porosity
       /\ twin.elemDat[v].saturation # elemDat[v].saturation
       /\ twin.elemDat[v].diffCoeff # elemDat[v].diffCoeff
       /\ twin.intrinsicPermeability[v] # problem.intrinsicPermeability[v]
       /\ twin.intrinsicPermeability[v] # k
  /\ \E ph \in Phases : porousDiffCoeff_[ph] # FZero /\ KmvpNormal_[ph] # 0

\* =========================================================================
\* TwoPTwoCNIFluxVariables (dumux/boxmodels/2p2cni/2p2cnifluxvariables.hh)
\* =========================================================================
TemperatureSet == {280, 300}

\* heat-flux laws of the spatial parameters: conductivity times the
\* temperature gradient, and one with an additional constant flux
HeatLawSet == { [kind |-> "fourier", lambda |-> 0 - 2], [kind |-> "biased", lambda |-> 3] }

MatrixHeatFlux(law, tempGrad) ==
  IF law.kind = "fourier"
  THEN VScale(tempGrad, law.lambda)
  ELSE VAdd(VScale(tempGrad, law.lambda), [i \in DOMAIN tempGrad |-> 1])

NIFace == subContVolFace[scvfIdx]

InitNI ==
  \E d \in Dims, nv \in 1 .. MaxVertices :
    /\ InitInputs(d, nv, 7, PlainFaceSet(d, nv), {0})
    /\ elemDat \in [0 .. (nv - 1) -> {VolVarsA, VolVarsC}]
    /\ scvIdx = 0
    /\ problem.intrinsicPermeability = [v \in 0 .. (nv - 1) |-> v + 1]
    /\ twin = NoTwin
    /\ objB = NoObj
    /\ wap = NoWap /\ asm = NoAsm /\ osp = NoOsp
    /\ scvfIdx \in BoundaryFaceIdxSet
    /\ \E f \in FaceSet(d, nv) :
         subContVolFace = [b \in BoundaryFaceIdxSet |-> IF b = scvfIdx THEN f ELSE OtherFace(d, nv)]
    /\ temperature \in [0 .. (nv - 1) -> TemperatureSet]
    /\ heatLaw \in HeatLawSet
    /\ temperatureGrad = VZero(d)
    /\ niTmp = VZero(d)
    /\ vertIdx = 0
    /\ normalMatrixHeatFlux_ = 7
    /\ niPc = "parent"

\* ParentType(problem, element, elemGeom, scvfIdx, elemDat): the interior-face
\* reconstructor TwoPTwoCFluxVariables, steps 1-5 of its algorithm
RECURSIVE ParentGradSum(_, _, _)
ParentGradSum(face, coef, n) ==
  IF n = 0 THEN VZero(dim)
  ELSE VAdd(ParentGradSum(face, coef, n - 1), VScale(face.grad[n - 1], coef[n - 1]))

RECURSIVE ParentShapeSum(_, _, _)
ParentShapeSum(face, coef, n) ==
  IF n = 0 THEN 0 ELSE ParentShapeSum(face, coef, n - 1) + face.shapeValue[n - 1] * coef[n - 1]

ParentConstruct ==
  /\ niPc = "parent"
  /\ LET nv == NumVertices
         V == 0 .. (nv - 1)
         rho == [p \in Phases |-> ParentShapeSum(NIFace, [v \in V |-> elemDat[v].density[p]], nv)]
         pg == [p \in Phases |->
                  VSub(ParentGradSum(NIFace, [v \in V |-> elemDat[v].pressure[p]], nv),
                       IF EnableGravity THEN VScale(problem.gravity, rho[p]) ELSE VZero(dim))]
     IN /\ potentialGrad_' = pg
        /\ concentrationGrad_' =
             [p \in Phases |->
                ParentGradSum(NIFace, [v \in V |-> elemDat[v].massFraction[p][1 - p]], nv)]
        /\ molarConcGrad_' =
             [p \in Phases |->
                ParentGradSum(NIFace, [v \in V |-> elemDat[v].moleFraction[p][1 - p]], nv)]
        /\ pressureAtIP_' =
             [p \in Phases |-> ParentShapeSum(NIFace, [v \in V |-> elemDat[v].pressure[p]], nv)]
        /\ densityAtIP_' = rho
        /\ molarDensityAtIP_' =
             [p \in Phases |-> ParentShapeSum(NIFace, [v \in V |-> elemDat[v].molarDensity[p]], nv)]
        /\ KmvpNormal_' =
             [p \in Phases |->
                0 - VDot(VScale(pg[p], problem.intrinsicPermeability[scvIdx]), NIFace.normal)]
        /\ porousDiffCoeff_' = [p \in Phases |-> PorousDiffCoeffOf(elemDat[scvIdx], p)]
  /\ niPc' = "enter"
  /\ UNCHANGED <<inputs, boundaryFace_, scvIdx_, locals, twin, niInputs,
                 temperatureGrad, niTmp, vertIdx, normalMatrixHeatFlux_, objB, wap, asm, osp>>

\* Vector temperatureGrad(0); Vector tmp(0.0);
NIEnter ==
  /\ niPc = "enter"
  /\ temperatureGrad' = VZero(dim)
  /\ niTmp' = VZero(dim)
  /\ vertIdx' = 0
  /\ niPc' = IF 0 < NumVertices THEN "vertices" ELSE "flux"
  /\ UNCHANGED <<inputs, members, locals, twin, niInputs, normalMatrixHeatFlux_, objB, wap, asm, osp>>

\* tmp = grad[vertIdx]; tmp *= temperature
TemperatureTerm(feGrad, T) == VScale(feGrad, T)

\* "=" in place of "+=": only the last vertex contributes
AccumulateTemperature_Overwrite(acc, term) == term

\* temperatureGrad += tmp
AccumulateTemperature(acc, term) == VAdd(acc, term)

NIVertexStep ==
  /\ niPc = "vertices"
  /\ vertIdx < NumVertices
  /\ niTmp' = TemperatureTerm(NIFace.grad[vertIdx], temperature[vertIdx])
  /\ temperatureGrad' = AccumulateTemperature(temperatureGrad, niTmp')
  /\ vertIdx' = vertIdx + 1
  /\ niPc' = IF vertIdx + 1 < NumVertices THEN "vertices" ELSE "flux"
  /\ UNCHANGED <<inputs, members, locals, twin, niInputs, normalMatrixHeatFlux_, objB, wap, asm, osp>>

\* a member of the base object handed to matrixHeatFlux as the output vector
HeatFluxBuffer_Member == "potentialGrad_"

\* the face normal of the geometry handed to matrixHeatFlux as the output vector
HeatFluxBuffer_Geometry == "normal"

\* the first argument of matrixHeatFlux: the vector the law writes its result to
HeatFluxBuffer == "tmp"

\* the sign of the projection flipped
NormalProjection_Negated(flux, normal) == 0 - VDot(flux, normal)

\* tmp * elemGeom.subContVolFace[scvfIdx].normal
NormalProjection(flux, normal) == VDot(flux, normal)

\* the call of matrixHeatFlux and the projection on the face normal
NIHeatFlux ==
  /\ niPc = "flux"
  /\ LET out == MatrixHeatFlux(heatLaw, temperatureGrad)
     IN /\ niTmp' = IF HeatFluxBuffer = "tmp" THEN out ELSE niTmp
        /\ potentialGrad_' =
             IF HeatFluxBuffer = "potentialGrad_"
             THEN [potentialGrad_ EXCEPT ![lPhaseIdx] = out] ELSE potentialGrad_
        /\ subContVolFace' =
             IF HeatFluxBuffer = "normal"
             THEN [subContVolFace EXCEPT ![scvfIdx].normal = out] ELSE subContVolFace
  /\ normalMatrixHeatFlux_' = NormalProjection(niTmp', subContVolFace'[scvfIdx].normal)
  /\ niPc' = "done"
  /\ UNCHANGED <<inputs, boundaryFace_, scvIdx_, concentrationGrad_, molarConcGrad_,
                 pressureAtIP_, densityAtIP_, molarDensityAtIP_, KmvpNormal_, porousDiffCoeff_,
                 locals, twin, scvfIdx, temperature, heatLaw, temperatureGrad, vertIdx,
                 objB, wap, asm, osp>>

NextNI == ParentConstruct \/ NIEnter \/ NIVertexStep \/ NIHeatFlux

SpecNI == InitNI /\ [][NextNI]_vars

NIDone == niPc = "done"

\* C11: after the ParentType constructor has returned, no step of the
\* TwoPTwoCNIFluxVariables constructor changes a field of the base object;
\* the only member it writes is normalMatrixHeatFlux_.
C11_ExtensionKeepsBaseFields ==
  [][(niPc \in {"enter", "vertices", "flux"}) => (members' = members)]_vars

C11_Witness ==
  /\ NIDone
  /\ normalMatrixHeatFlux_ # 7
  /\ normalMatrixHeatFlux_ # 0
  /\ \A ph \in Phases : potentialGrad_[ph] # VZero(dim) /\ KmvpNormal_[ph] # 0

UniformTemperature == \A v \in Vertices : temperature[v] = temperature[0]

NIGradientsSumToZero == GradSum(NIFace, [v \in Vertices |-> 1], NumVertices) = VZero(dim)

\* C12: with the same temperature at every vertex and shape gradients that sum
\* to zero the temperature gradient handed to matrixHeatFlux is zero and, for
\* a law returning conductivity times the gradient, normalMatrixHeatFlux is 0.
C12_UniformTemperatureNoHeatFlux ==
  (NIDone /\ UniformTemperature /\ NIGradientsSumToZero) =>
    /\ temperatureGrad = VZero(dim)
    /\ heatLaw.kind = "fourier" => normalMatrixHeatFlux_ = 0

C12_Witness ==
  /\ NIDone
  /\ UniformTemperature
  /\ NIGradientsSumToZero
  /\ NumVertices >= 2
  /\ \A v \in Vertices : NIFace.grad[v] # VZero(dim)
  /\ heatLaw.kind = "fourier"
  /\ normalMatrixHeatFlux_ = 0

\* C13: the temperature gradient is the sum over all vertices of
\* subContVolFace[scvfIdx].grad[v]*temperature_v, and normalMatrixHeatFlux is
\* the vector written by matrixHeatFlux dotted with the normal of that same
\* face, without sign change and without the buffer's earlier content.
C13_HeatFluxProjection ==
  NIDone =>
    LET tg == GradSum(NIFace, temperature, NumVertices)
    IN /\ temperatureGrad = tg
       /\ normalMatrixHeatFlux_ = VDot(MatrixHeatFlux(heatLaw, tg), NIFace.normal)

C13_Witness ==
  /\ NIDone
  /\ NumVertices >= 2
  /\ ~UniformTemperature
  /\ temperatureGrad # VZero(dim)
  /\ normalMatrixHeatFlux_ # 0
  /\ NIFace.grad[NumVertices - 1] # VZero(dim)

\* =========================================================================
\* The 1-D two-vertex Darcy example: vertices 10 m apart, p0 = 2e5, p1 = 1e5,
\* gravity disabled.  Gradients are kept in tenths (shape gradients -1/10 and
\* +1/10 are -1 and +1), so a potential gradient of -1e4 is -100000.
\* =========================================================================
DarcyFractionSet == {0, 1}
DarcyPermeabilitySet == {1, 2, 3}

DarcyFace ==
  [grad |-> [v \in 0 .. 1 |-> [i \in 0 .. 0 |-> IF v = 0 THEN 0 - 1 ELSE 1]],
   shapeValue |-> [v \in 0 .. 1 |-> IF v = 0 THEN 1 ELSE 0],
   normal |-> [i \in 0 .. 0 |-> 1]]

DarcyVolVars(base, p, x) ==
  [base EXCEPT !.pressure = Ph(p, p),
               !.massFraction = Ph(Ph(1 - x, x), Ph(x, 1 - x)),
               !.moleFraction = Ph(Ph(1 - x, x), Ph(x, 1 - x))]

InitDarcy ==
  /\ dim = 1
  /\ EnableGravity = FALSE
  /\ \E kk \in DarcyPermeabilitySet :
       problem = [gravity |-> GravityOf(1), intrinsicPermeability |-> [v \in 0 .. 1 |-> kk]]
  /\ boundaryFaceIdx = 0
  /\ fvElemGeom_ =
       [numVertices |-> 2,
        boundaryFace |-> [b \in BoundaryFaceIdxSet |-> IF b = 0 THEN DarcyFace ELSE OtherFace(1, 2)]]
  /\ \E b0 \in VolVarsSet, b1 \in VolVarsSet, x0 \in DarcyFractionSet, x1 \in DarcyFractionSet :
       elemDat = [v \in 0 .. 1 |->
                    IF v = 0 THEN DarcyVolVars(b0, 200000, x0) ELSE DarcyVolVars(b1, 100000, x1)]
  /\ scvIdx \in 0 .. 1
  /\ InitObject(1, 7)
  /\ twin = NoTwin
  /\ NoNI
  /\ objB = NoObj
  /\ wap = NoWap /\ asm = NoAsm /\ osp = NoOsp

SpecDarcy == InitDarcy /\ [][Next]_vars

\* C14: in the 1-D two-vertex example the potential gradient is -1e4 in its
\* first (only) component and KmvpNormal is +1e4*k for the unit normal
\* pointing from vertex 0 to vertex 1.
C14_DarcyExample ==
  Done => \A ph \in Phases :
            /\ potentialGrad_[ph] = [i \in 0 .. 0 |-> 0 - 100000]
            /\ KmvpNormal_[ph] = 100000 * problem.intrinsicPermeability[scvIdx]

\* =========================================================================
\* Both constructors over their inputs: a boundary-variables construction
\* (niPc = "off") or a non-isothermal flux-variables construction.
\* =========================================================================
InitAll == Init \/ InitNI

BoundaryNext == niPc = "off" /\ Next

NextAll == BoundaryNext \/ NextNI

SpecAll == InitAll /\ [][NextAll]_vars

\* C15: constructing a flux-data object never writes to its inputs: the element
\* geometry, the per-vertex volume states, the problem and its spatial
\* parameters are the same after every step of either constructor.
C15_InputsNeverWritten == [][inputs' = inputs /\ niInputs' = niInputs]_vars

C15_Witness ==
  /\ NIDone
  /\ niTmp # VZero(dim)
  /\ niTmp # subContVolFace[scvfIdx].normal
  /\ normalMatrixHeatFlux_ # 0

\* =========================================================================
\* Two constructions on the two boundary faces of one element, running
\* step by step in any order over the same geometry, volume states and
\* problem.  The first object is the one of Spec; the second (objB) has its
\* own members and its own locals.
\* =========================================================================
InitObjB(d, g, b, scv) ==
  [on |-> TRUE, boundaryFaceIdx |-> b, scvIdx |-> scv,
   boundaryFace_ |-> 0, scvIdx_ |-> 0,
   potentialGrad_ |-> [p \in Phases |-> [i \in 0 .. (d - 1) |-> g]],
   concentrationGrad_ |-> [p \in Phases |-> [i \in 0 .. (d - 1) |-> g]],
   molarConcGrad_ |-> [p \in Phases |-> [i \in 0 .. (d - 1) |-> g]],
   pressureAtIP_ |-> [p \in Phases |-> g],
   densityAtIP_ |-> [p \in Phases |-> g],
   molarDensityAtIP_ |-> [p \in Phases |-> g],
   KmvpNormal_ |-> [p \in Phases |-> g],
   porousDiffCoeff_ |-> [p \in Phases |-> Num(g, 1)],
   tmp |-> VZero(d), k |-> 0, idx |-> 0, phaseIdx |-> 0, pc |-> "start"]

InitTwo ==
  \E d \in Dims, nv \in 1 .. MaxVertices :
    /\ InitInputs(d, nv, 7, FaceSet(d, nv), BoundaryFaceIdxSet)
    /\ elemDat \in [0 .. (nv - 1) -> {VolVarsA, VolVarsC}]
    /\ problem.intrinsicPermeability = [v \in 0 .. (nv - 1) |-> v + 1]
    /\ twin = NoTwin
    /\ NoNI
    /\ wap = NoWap /\ asm = NoAsm /\ osp = NoOsp
    /\ objB = InitObjB(d, 7, 1 - boundaryFaceIdx, nv - 1 - scvIdx)

\* the face the second object is built on
BoundaryFaceB == fvElemGeom_.boundaryFace[objB.boundaryFace_]

\* every construction has its own tmp as the work vector of its phase loop
WorkVectorB_Shared == tmp

\* Vector tmp(0.0): a local of the call
WorkVectorB == objB.tmp

ConstructB ==
  /\ objB.on
  /\ objB.pc = "start"
  /\ objB' = [objB EXCEPT
                !.scvIdx_ = objB.scvIdx,
                !.boundaryFace_ = objB.boundaryFaceIdx,
                !.densityAtIP_ = [p \in Phases |-> 0],
                !.pressureAtIP_ = [p \in Phases |-> 0],
                !.molarDensityAtIP_ = [p \in Phases |-> 0],
                !.potentialGrad_ = [p \in Phases |-> VZero(dim)],
                !.concentrationGrad_ = [p \in Phases |-> VZero(dim)],
                !.molarConcGrad_ = [p \in Phases |-> VZero(dim)],
                !.KmvpNormal_ = [p \in Phases |-> 0],
                !.porousDiffCoeff_ = [p \in Phases |-> FZero],
                !.tmp = VZero(dim),
                !.idx = 0,
                !.pc = IF 0 < NumVertices THEN "vertices" ELSE "phases"]
  /\ UNCHANGED <<inputs, members, locals, twin, niVars, wap, asm, osp>>

VertexStepB ==
  /\ objB.on
  /\ objB.pc = "vertices"
  /\ objB.idx < NumVertices
  /\ LET feGrad == BoundaryFaceB.grad[objB.idx]
         fs == elemDat[objB.idx]
         sv == BoundaryFaceB.shapeValue[objB.idx]
     IN objB' = [objB EXCEPT
          !.potentialGrad_ = [p \in Phases |-> Accumulate(@[p], feGrad, fs.pressure[p])],
          !.concentrationGrad_[lPhaseIdx] = Accumulate(@, feGrad, fs.massFraction[lPhaseIdx][gCompIdx]),
          !.concentrationGrad_[gPhaseIdx] = Accumulate(@, feGrad, fs.massFraction[gPhaseIdx][lCompIdx]),
          !.molarConcGrad_[lPhaseIdx] = Accumulate(@, feGrad, fs.moleFraction[lPhaseIdx][gCompIdx]),
          !.molarConcGrad_[gPhaseIdx] = Accumulate(@, feGrad, fs.moleFraction[gPhaseIdx][lCompIdx]),
          !.tmp = GradTerm(feGrad, fs.moleFraction[gPhaseIdx][lCompIdx]),
          !.pressureAtIP_ = [p \in Phases |-> Interpolate(@[p], fs.pressure[p], sv)],
          !.densityAtIP_ = [p \in Phases |-> Interpolate(@[p], fs.density[p], sv)],
          !.molarDensityAtIP_ = [p \in Phases |-> Interpolate(@[p], fs.molarDensity[p], sv)],
          !.idx = objB.idx + 1,
          !.phaseIdx = 0,
          !.pc = IF objB.idx + 1 < NumVertices THEN "vertices" ELSE "phases"]
  /\ UNCHANGED <<inputs, members, locals, twin, niVars, wap, asm, osp>>

PhaseStepB ==
  /\ objB.on
  /\ objB.pc = "phases"
  /\ objB.phaseIdx < numPhases
  /\ LET ph == objB.phaseIdx
         t == IF EnableGravity THEN VScale(problem.gravity, objB.densityAtIP_[ph]) ELSE WorkVectorB
         pg == VSub(objB.potentialGrad_[ph], t)
         kk == IntrinsicPermeability(problem.intrinsicPermeability, objB.scvIdx_)
         T == PermeabilityTensor(dim, kk)
     IN \E c \in ClobberSet :
          objB' = [objB EXCEPT
            !.potentialGrad_[ph] = pg,
            !.k = kk,
            !.tmp = IF TensorOutOfBounds(dim) # {} /\ c = "tmp" THEN [t EXCEPT ![0] = kk] ELSE t,
            !.KmvpNormal_[ph] = DarcyNormal(T, pg, BoundaryFaceB.normal),
            !.porousDiffCoeff_[ph] = PorousDiffCoeffOf(VertDat(elemDat, objB.scvIdx_), ph),
            !.phaseIdx = ph + 1,
            !.pc = IF ph + 1 < numPhases THEN "phases" ELSE "done"]
  /\ UNCHANGED <<inputs, members, locals, twin, niVars, wap, asm, osp>>

NextTwo == Construct \/ VertexStep \/ PhaseStep \/ ConstructB \/ VertexStepB \/ PhaseStepB

SpecTwo == InitTwo /\ [][NextTwo]_vars

\* the fields a construction on face b for sub-control volume scv has when
\* it runs alone from start to end; c is the effect of the out-of-bounds
\* tensor write of the first phase pass (only present for dim = 1)
SoloFields(b, scv, c) ==
  LET face == fvElemGeom_.boundaryFace[b]
      nv == NumVertices
      coef(f(_)) == [v \in 0 .. (nv - 1) |-> f(elemDat[v])]
      P(ph) == LET f(vd) == vd.pressure[ph] IN coef(f)
      Rho(ph) == LET f(vd) == vd.density[ph] IN coef(f)
      MolRho(ph) == LET f(vd) == vd.molarDensity[ph] IN coef(f)
      X(ph) == LET f(vd) == vd.massFraction[ph][1 - ph] IN coef(f)
      x(ph) == LET f(vd) == vd.moleFraction[ph][1 - ph] IN coef(f)
      dens == [ph \in Phases |-> ShapeSum(face, Rho(ph), nv)]
      kk == problem.intrinsicPermeability[scv]
      tmp0 == IF nv = 0 THEN VZero(dim)
              ELSE VScale(face.grad[nv - 1], elemDat[nv - 1].moleFraction[gPhaseIdx][lCompIdx])
      tmp1 == IF dim = 1 /\ c = "tmp" THEN [tmp0 EXCEPT ![0] = kk] ELSE tmp0
      sub == [ph \in Phases |->
                IF EnableGravity THEN VScale(problem.gravity, dens[ph])
                ELSE IF ph = 0 THEN tmp0 ELSE tmp1]
      pg == [ph \in Phases |-> VSub(GradSum(face, P(ph), nv), sub[ph])]
      T == [i \in 0 .. (dim - 1) |-> [j \in 0 .. (dim - 1) |-> IF i = j /\ i < 2 THEN kk ELSE 0]]
  IN [boundaryFace_ |-> b,
      scvIdx_ |-> scv,
      potentialGrad_ |-> pg,
      concentrationGrad_ |-> [ph \in Phases |-> GradSum(face, X(ph), nv)],
      molarConcGrad_ |-> [ph \in Phases |-> GradSum(face, x(ph), nv)],
      pressureAtIP_ |-> [ph \in Phases |-> ShapeSum(face, P(ph), nv)],
      densityAtIP_ |-> dens,
      molarDensityAtIP_ |-> [ph \in Phases |-> ShapeSum(face, MolRho(ph), nv)],
      KmvpNormal_ |-> [ph \in Phases |-> 0 - VDot(TensorMv(T, pg[ph]), face.normal)],
      porousDiffCoeff_ |-> [ph \in Phases |-> PorousDiffCoeffOf(elemDat[scv], ph)]]

FieldNames == DOMAIN SoloFields(0, 0, "none")

FieldsA ==
  [boundaryFace_ |-> boundaryFace_, scvIdx_ |-> scvIdx_, potentialGrad_ |-> potentialGrad_,
   concentrationGrad_ |-> concentrationGrad_, molarConcGrad_ |-> molarConcGrad_,
   pressureAtIP_ |-> pressureAtIP_, densityAtIP_ |-> densityAtIP_,
   molarDensityAtIP_ |-> molarDensityAtIP_, KmvpNormal_ |-> KmvpNormal_,
   porousDiffCoeff_ |-> porousDiffCoeff_]

FieldsB == [f \in FieldNames |-> objB[f]]

DoneB == objB.on /\ objB.pc = "done"

\* C16: two constructions for different faces over the same inputs may
\* interleave step by step in any order; whenever one of them has finished,
\* its fields are the fields it has when it runs alone.
C16_InterleavingEqualsSolo ==
  /\ Done => \E c \in ClobberSet : FieldsA = SoloFields(boundaryFaceIdx, scvIdx, c)
  /\ DoneB => \E c \in ClobberSet : FieldsB = SoloFields(objB.boundaryFaceIdx, objB.scvIdx, c)

C16_Witness ==
  /\ Done
  /\ DoneB
  /\ objB.boundaryFaceIdx # boundaryFaceIdx
  /\ FieldsA # FieldsB
  /\ objB.potentialGrad_ # potentialGrad_
  /\ ~EnableGravity

\* C17: the reconstructor has no error outcome.  For every input the next
\* step of the construction is possible until it is complete (a phase pass
\* has only its loop condition as guard; all of its arithmetic is total); a
\* saturation <= 0 gives the coefficient 0 without the division by
\* porosity^2 being evaluated (also for porosity 0), and a non-positive
\* porosity with a saturation > 0 is not detected: its NaN is stored in
\* porousDiffCoeff_ like any other value.
C17_NoErrorOutcome ==
  /\ pc \in {"start", "vertices", "phases", "done"}
  /\ pc = "start" => ENABLED Construct
  /\ pc = "vertices" => ENABLED VertexStep
  /\ pc = "phases" => phaseIdx < numPhases
  /\ idx <= NumVertices /\ phaseIdx <= numPhases
  /\ Done => \A ph \in Phases :
       LET vertDat == elemDat[scvIdx]
       IN /\ FLeqZero(vertDat.saturation[ph]) => porousDiffCoeff_[ph] = FZero
          /\ (FGtZero(vertDat.saturation[ph]) /\ FLeqZero(vertDat.porosity))
               => porousDiffCoeff_[ph] = NaN

C17_Witness ==
  /\ Done
  /\ elemDat[scvIdx].porosity = FZero
  /\ FGtZero(elemDat[scvIdx].saturation[lPhaseIdx])
  /\ porousDiffCoeff_[lPhaseIdx] = NaN
  /\ elemDat[scvIdx].saturation[gPhaseIdx] = FZero
  /\ porousDiffCoeff_[gPhaseIdx] = FZero

\* =========================================================================
\* WaterAirProblem (test/boxmodels/2p2cni): initial and boundary conditions
\* as functions of the global position.
\*
\* A coordinate is m + e*eps_ with integers m (metres) and e: the pair
\* [m, e], ordered lexicographically (eps_ = 1e-6 is far below the spacing
\* of the metre values used).  Pressures and temperatures are kept in
\* hundredths of their unit, again as such pairs.
\* =========================================================================
Sc(m) == [m |-> m, e |-> 0]
SAdd(a, b) == [m |-> a.m + b.m, e |-> a.e + b.e]
SSub(a, b) == [m |-> a.m - b.m, e |-> a.e - b.e]
SScale(a, c) == [m |-> a.m * c, e |-> a.e * c]
SLess(a, b) == a.m < b.m \/ (a.m = b.m /\ a.e < b.e)

\* maxDepth_ = 1000.0; eps_ = 1e-6;
maxDepth_ == Sc(1000)
eps_ == [m |-> 0, e |-> 1]

MassEqs == {"contiN2EqIdx", "contiH2OEqIdx"}
Eqs == MassEqs \cup {"energyEqIdx"}

WapXs == {Sc(0), eps_, Sc(10), Sc(15), SAdd(Sc(15), eps_), Sc(20), SAdd(Sc(20), eps_),
          SSub(Sc(25), eps_), Sc(25), SSub(Sc(30), eps_), Sc(30),
          SSub(Sc(40), SScale(eps_, 2)), SSub(Sc(40), eps_), Sc(40)}
WapYs == {Sc(0), eps_, Sc(2), Sc(5), SAdd(Sc(5), eps_), SSub(Sc(30), eps_), Sc(30),
          Sc(32), Sc(35), Sc(40)}
PosSet == { [x |-> px, y |-> py] : px \in WapXs, py \in WapYs }

\* a PrimaryVariables / RateVector / BoundaryTypes object as handed in by the caller
FreshValues == [phasePresence |-> "unset", pressureIdx |-> Sc(0 - 1), switchIdx |-> Sc(0 - 1),
                temperatureIdx |-> Sc(0 - 1)]
FreshRates == [eq \in Eqs |-> Num(7, 1)]
FreshTypes == [eq \in Eqs |-> [kind |-> "unset", pvIdx |-> "unset"]]

\* BoundaryTypes::setAllDirichlet, setAllNeumann, setDirichlet(pvIdx, eqIdx)
SetAllDirichlet(types) == [eq \in Eqs |-> [kind |-> "dirichlet", pvIdx |-> eq]]
SetAllNeumann(types) == [eq \in Eqs |-> [kind |-> "neumann", pvIdx |-> "unset"]]
SetDirichlet(types, pvIdx, eqIdx) ==
  [types EXCEPT ![eqIdx] = [kind |-> "dirichlet", pvIdx |-> pvIdx]]

\* the energy equation left as the mass equations are
boundaryTypes_EnergyFollowsMass(values, globalPos) ==
  IF SLess(SSub(Sc(40), eps_), globalPos.x) \/ SLess(globalPos.x, eps_)
  THEN SetAllDirichlet(values)
  ELSE SetAllNeumann(values)

boundaryTypes(values, globalPos) ==
  LET v == IF SLess(SSub(Sc(40), eps_), globalPos.x) \/ SLess(globalPos.x, eps_)
           THEN SetAllDirichlet(values)
           ELSE SetAllNeumann(values)
  IN SetDirichlet(v, "temperatureIdx", "energyEqIdx")

\* pressure 1e5 + (maxDepth_ - y)*densityW*9.81 and temperature
\* 283.0 + (maxDepth_ - y)*0.03, both in hundredths
initial_(values, globalPos) ==
  LET densityW == 1000
  IN [values EXCEPT
        !.phasePresence = "lPhaseOnly",
        !.pressureIdx = SAdd(Sc(100 * 100000), SScale(SSub(maxDepth_, globalPos.y), densityW * 981)),
        !.switchIdx = Sc(0),
        !.temperatureIdx = SAdd(Sc(100 * 283), SScale(SSub(maxDepth_, globalPos.y), 3))]

\* the hot zone of initial() applied to the boundary values as well
dirichlet_WithHotZone(values, globalPos) ==
  LET v == initial_(values, globalPos)
  IN IF SLess(Sc(20), globalPos.x) /\ SLess(globalPos.x, Sc(30)) /\ SLess(globalPos.y, Sc(30))
     THEN [v EXCEPT !.temperatureIdx = Sc(100 * 380)]
     ELSE v

dirichlet(values, globalPos) == initial_(values, globalPos)

initial(values, globalPos) ==
  LET v == initial_(values, globalPos)
  IN IF SLess(Sc(20), globalPos.x) /\ SLess(globalPos.x, Sc(30)) /\ SLess(globalPos.y, Sc(30))
     THEN [v EXCEPT !.temperatureIdx = Sc(100 * 380)]
     ELSE v

\* the injection range taken with its end points
neumann_ClosedRange(values, globalPos) ==
  LET zero == [eq \in Eqs |-> FZero]
  IN IF ~SLess(globalPos.x, Sc(15)) /\ ~SLess(Sc(25), globalPos.x) /\ SLess(globalPos.y, eps_)
     THEN [zero EXCEPT !["contiN2EqIdx"] = Num(0 - 1, 1000)]
     ELSE zero

neumann(values, globalPos) ==
  LET zero == [eq \in Eqs |-> FZero]
  IN IF SLess(Sc(15), globalPos.x) /\ SLess(globalPos.x, Sc(25)) /\ SLess(globalPos.y, eps_)
     THEN [zero EXCEPT !["contiN2EqIdx"] = Num(0 - 1, 1000)]
     ELSE zero

\* the problem object exists; no flux-data object is under construction
InitWaterAir ==
  /\ dim = 2
  /\ EnableGravity = TRUE
  /\ problem = [gravity |-> GravityOf(2), intrinsicPermeability |-> [v \in 0 .. 0 |-> 1]]
  /\ boundaryFaceIdx = 0
  /\ fvElemGeom_ = [numVertices |-> 1,
                    boundaryFace |-> [b \in BoundaryFaceIdxSet |-> OtherFace(2, 1)]]
  /\ elemDat = [v \in 0 .. 0 |-> VolVarsA]
  /\ scvIdx = 0
  /\ InitObject(2, 7)
  /\ twin = NoTwin
  /\ NoNI
  /\ objB = NoObj
  /\ wap = NoWap /\ asm = NoAsm /\ osp = NoOsp

WapFrame == UNCHANGED <<inputs, members, locals, twin, niVars, objB, asm, osp>>

CallInitial ==
  /\ pc = "start"
  /\ \E pos \in PosSet : wap' = [op |-> "initial", pos |-> pos, values |-> initial(FreshValues, pos)]
  /\ WapFrame

CallDirichlet ==
  /\ pc = "start"
  /\ \E pos \in PosSet : wap' = [op |-> "dirichlet", pos |-> pos, values |-> dirichlet(FreshValues, pos)]
  /\ WapFrame

CallBoundaryTypes ==
  /\ pc = "start"
  /\ \E pos \in PosSet :
       wap' = [op |-> "boundaryTypes", pos |-> pos, values |-> boundaryTypes(FreshTypes, pos)]
  /\ WapFrame

CallNeumann ==
  /\ pc = "start"
  /\ \E pos \in PosSet : wap' = [op |-> "neumann", pos |-> pos, values |-> neumann(FreshRates, pos)]
  /\ WapFrame

NextWaterAir == CallInitial \/ CallDirichlet \/ CallBoundaryTypes \/ CallNeumann

SpecWaterAir == InitWaterAir /\ [][NextWaterAir]_vars

\* the geothermal temperature 283 + (1000 - y)*0.03, in hundredths
Geothermal(y) == SAdd(Sc(28300), SScale(SSub(Sc(1000), y), 3))

\* C18: initial() gives 380 K exactly inside the documented rectangle from
\* (20 m, 5 m) to (30 m, 35 m) and the geothermal value 283 + (1000 - y)*0.03
\* everywhere outside it.
C18_HotRectangleAsDocumented ==
  wap.op = "initial" =>
    LET px == wap.pos.x
        py == wap.pos.y
        inside == SLess(Sc(20), px) /\ SLess(px, Sc(30)) /\ SLess(Sc(5), py) /\ SLess(py, Sc(35))
        outside == SLess(px, Sc(20)) \/ SLess(Sc(30), px) \/ SLess(py, Sc(5)) \/ SLess(Sc(35), py)
    IN /\ inside => wap.values.temperatureIdx = Sc(38000)
       /\ outside => wap.values.temperatureIdx = Geothermal(py)

\* C19: boundaryTypes makes every mass-conservation equation Dirichlet
\* when x < eps or x > 40 - eps and Neumann otherwise, and makes the energy
\* equation Dirichlet on the temperature at every position.
C19_BoundaryTypes ==
  wap.op = "boundaryTypes" =>
    LET px == wap.pos.x
        leftOrRight == SLess(px, eps_) \/ SLess(SSub(Sc(40), eps_), px)
    IN /\ \A eq \in MassEqs :
            wap.values[eq].kind = IF leftOrRight THEN "dirichlet" ELSE "neumann"
       /\ wap.values["energyEqIdx"] = [kind |-> "dirichlet", pvIdx |-> "temperatureIdx"]

C19_Witness ==
  /\ wap.op = "boundaryTypes"
  /\ wap.pos.x = Sc(20)
  /\ wap.values["contiN2EqIdx"].kind = "neumann"
  /\ wap.values["energyEqIdx"].kind = "dirichlet"

\* C20: neumann gives the N2 continuity rate -1e-3 exactly at positions with
\* 15 < x < 25 and y < eps; at every other position every entry is 0, and no
\* entry other than the N2 continuity entry is ever non-zero.
C20_NeumannInjection ==
  wap.op = "neumann" =>
    LET px == wap.pos.x
        py == wap.pos.y
        inlet == SLess(Sc(15), px) /\ SLess(px, Sc(25)) /\ SLess(py, eps_)
    IN /\ wap.values["contiN2EqIdx"] = IF inlet THEN Num(0 - 1, 1000) ELSE FZero
       /\ \A eq \in Eqs \ {"contiN2EqIdx"} : wap.values[eq] = FZero

C20_Witness ==
  /\ wap.op = "neumann"
  /\ wap.pos = [x |-> Sc(20), y |-> Sc(0)]
  /\ wap.values["contiN2EqIdx"] = Num(0 - 1, 1000)

NumDofs == 2
Dofs == 0 .. (NumDofs - 1)
DofValueSet == {0, 1, 2}

\* no flux-data object is under construction
NoFluxData ==
  /\ dim = 2
  /\ EnableGravity = TRUE
  /\ problem = [gravity |-> GravityOf(2), intrinsicPermeability |-> [v \in 0 .. 0 |-> 1]]
  /\ boundaryFaceIdx = 0
  /\ fvElemGeom_ = [numVertices |-> 1,
                    boundaryFace |-> [b \in BoundaryFaceIdxSet |-> OtherFace(2, 1)]]
  /\ elemDat = [v \in 0 .. 0 |-> VolVarsA]
  /\ scvIdx = 0
  /\ InitObject(2, 7)
  /\ twin = NoTwin
  /\ NoNI
  /\ objB = NoObj

\* the Jacobian and the residual of the grid operator at the point x (the
\* local operator is a non-linear function of x)
GridJacobian(x) == [i \in Dofs |-> [j \in Dofs |-> (i + 1) * x[j] + (IF i = j THEN 2 + x[i] ELSE 0)]]
GridResidual(x) == [i \in Dofs |-> x[i] * x[i] + x[(i + 1) % NumDofs] + i + 1]

\* *matrix_ = 0 skipped
ZeroMatrix_Skipped(m) == m

\* *matrix_ = 0
ZeroMatrix(m) == [i \in Dofs |-> [j \in Dofs |-> 0]]

\* *f = 0
ZeroVector(x) == [i \in Dofs |-> 0]

\* gridOperatorSpace_->jacobian(x, m): the Jacobian at x is added to m
JacobianInto(x, m) == [i \in Dofs |-> [j \in Dofs |-> m[i][j] + GridJacobian(x)[i][j]]]

\* gridOperatorSpace_->residual(x, r): the residual at x is added to r
ResidualInto(x, r) == [i \in Dofs |-> r[i] + GridResidual(x)[i]]

\* no entry is overwritten
set_constrained_dofs_Nothing(cg, x, xg) == xg

\* set_constrained_dofs(cg, x, xg): xg[i] = x for every constrained i
set_constrained_dofs(cg, x, xg) == [i \in Dofs |-> IF i \in cg THEN x ELSE xg[i]]

GarbageMatrix == [i \in Dofs |-> [j \in Dofs |-> 7]]
GarbageVector == [i \in Dofs |-> 5 + i]

\* after the constructor: constraintsTrafo_ computed, *matrix_ = 0; the
\* caller owns u and f
InitAssembler ==
  /\ NoFluxData
  /\ wap = NoWap
  /\ osp = NoOsp
  /\ \E cg \in SUBSET Dofs, x \in [Dofs -> DofValueSet], r \in {ZeroVector(GarbageVector), GarbageVector} :
       asm = [on |-> TRUE, constraintsTrafo_ |-> cg, matrix_ |-> ZeroMatrix(GarbageMatrix),
              u |-> x, f |-> r, pc |-> "idle", uEntry |-> x, calls |-> 0]

AsmFrame == UNCHANGED <<inputs, members, locals, twin, niVars, objB, wap, osp>>

\* the caller prepares the arguments (it may also have written the matrix
\* through operator*) and enters assemble; uEntry remembers u on entry
AssembleCall ==
  /\ asm.on
  /\ asm.pc \in {"idle", "returned"}
  /\ \E x \in [Dofs -> DofValueSet], r \in {asm.f, GarbageVector}, m \in {asm.matrix_, GarbageMatrix} :
       asm' = [asm EXCEPT !.u = x, !.f = r, !.matrix_ = m, !.uEntry = x, !.pc = "l82",
                          !.calls = IF asm.calls = 0 THEN 1 ELSE 2]
  /\ AsmFrame

AssembleL82 ==
  /\ asm.on /\ asm.pc = "l82"
  /\ asm' = [asm EXCEPT !.matrix_ = ZeroMatrix(@), !.pc = "l83"]
  /\ AsmFrame

AssembleL83 ==
  /\ asm.on /\ asm.pc = "l83"
  /\ asm' = [asm EXCEPT !.matrix_ = JacobianInto(asm.u, @), !.pc = "l84"]
  /\ AsmFrame

AssembleL84 ==
  /\ asm.on /\ asm.pc = "l84"
  /\ asm' = [asm EXCEPT !.f = ZeroVector(@), !.pc = "l85"]
  /\ AsmFrame

AssembleL85 ==
  /\ asm.on /\ asm.pc = "l85"
  /\ asm' = [asm EXCEPT !.f = ResidualInto(asm.u, @), !.pc = "l86"]
  /\ AsmFrame

AssembleL86 ==
  /\ asm.on /\ asm.pc = "l86"
  /\ asm' = [asm EXCEPT !.f = set_constrained_dofs(asm.constraintsTrafo_, 0, @), !.pc = "l87"]
  /\ AsmFrame

AssembleL87 ==
  /\ asm.on /\ asm.pc = "l87"
  /\ asm' = [asm EXCEPT !.u = set_constrained_dofs(asm.constraintsTrafo_, 0, @), !.pc = "returned"]
  /\ AsmFrame

NextAssembler ==
  \/ AssembleCall \/ AssembleL82 \/ AssembleL83 \/ AssembleL84
  \/ AssembleL85 \/ AssembleL86 \/ AssembleL87

SpecAssembler == InitAssembler /\ [][NextAssembler]_vars

\* C22: assemble evaluates the Jacobian and the residual on u as it was on
\* entry and only afterwards overwrites the constrained entries of u; after
\* it returns, the matrix is the Jacobian at the entry u whatever it held
\* before, and f is the residual at the entry u with its constrained entries
\* replaced by 0 whatever f held before.
C22_AssembleOnEntrySolution ==
  /\ asm.pc \in {"l82", "l83", "l84", "l85", "l86", "l87"} => asm.u = asm.uEntry
  /\ asm.pc = "returned" =>
       /\ asm.matrix_ = GridJacobian(asm.uEntry)
       /\ asm.f = [i \in Dofs |-> IF i \in asm.constraintsTrafo_ THEN 0
                                  ELSE GridResidual(asm.uEntry)[i]]

C22_Witness ==
  /\ asm.on
  /\ asm.pc = "returned"
  /\ asm.calls = 2
  /\ asm.constraintsTrafo_ = {0}
  /\ asm.uEntry[0] # 0
  /\ asm.u # asm.uEntry
  /\ asm.matrix_ # GridJacobian(asm.u)

\* C23: after any sequence of assemble calls every constrained entry of f
\* and of u is 0 and every unconstrained entry of u has the value it had
\* before the call; the set of constrained degrees of freedom is never
\* changed by assemble.
C23_ConstrainedDofsZero ==
  [][/\ asm'.constraintsTrafo_ = asm.constraintsTrafo_
     /\ asm'.pc = "returned" =>
          /\ \A i \in asm'.constraintsTrafo_ : asm'.f[i] = 0 /\ asm'.u[i] = 0
          /\ \A i \in Dofs \ asm'.constraintsTrafo_ : asm'.u[i] = asm'.uEntry[i]]_vars

C23_Witness ==
  /\ asm.on
  /\ asm.pc = "returned"
  /\ asm.calls = 2
  /\ asm.constraintsTrafo_ = {1}
  /\ asm.uEntry[1] = 2
  /\ asm.u[1] = 0 /\ asm.f[1] = 0
  /\ asm.u[0] = 1 /\ asm.f[0] # 0

\* =========================================================================
\* ObstacleSpatialParameters (test/boxmodels/mpnc): permeability and
\* material-law parameters as functions of the global position.
\* Coordinates are the pairs [m, e] of above (m metres plus a small offset
\* e); permeabilities are in units of 1e-15 m^2.
\* =========================================================================
coarseK_ == 1000
fineK_ == 1

\* the two parameter objects; name tells which member the returned reference is
fineMaterialParams_ == [name |-> "fineMaterialParams_", Swr |-> 0, Snr |-> 0, EntryPC |-> 0, MaxPC |-> 0]
coarseMaterialParams_ == [name |-> "coarseMaterialParams_", Swr |-> 0, Snr |-> 0, EntryPC |-> 0, MaxPC |-> 0]

SLeq(a, b) == ~SLess(b, a)

\* the bounds of the region taken as exclusive
isFineMaterial_OpenBounds(pos) ==
  /\ SLess(Sc(10), pos.x) /\ SLess(pos.x, Sc(20))
  /\ SLess(Sc(0), pos.y) /\ SLess(pos.y, Sc(35))

isFineMaterial_(pos) ==
  /\ SLeq(Sc(10), pos.x) /\ SLeq(pos.x, Sc(20))
  /\ SLeq(Sc(0), pos.y) /\ SLeq(pos.y, Sc(35))

intrinsicPermeability(fvElemGeom, scvIdxArg) ==
  IF isFineMaterial_(fvElemGeom.subContVol[scvIdxArg].global) THEN fineK_ ELSE coarseK_

materialLawParamsAtPos(pos) ==
  IF isFineMaterial_(pos) THEN fineMaterialParams_ ELSE coarseMaterialParams_

ObsXs == {Sc(0), [m |-> 10, e |-> 0 - 1], Sc(10), [m |-> 10, e |-> 1], Sc(15),
          [m |-> 20, e |-> 0 - 1], Sc(20), [m |-> 20, e |-> 1], Sc(30), Sc(60)}
ObsYs == {[m |-> 0, e |-> 0 - 1], Sc(0), [m |-> 0, e |-> 1], Sc(20),
          [m |-> 35, e |-> 0 - 1], Sc(35), [m |-> 35, e |-> 1], Sc(40)}
ObsPosSet == { [x |-> px, y |-> py] : px \in ObsXs, py \in ObsYs }
ObsScvSet == {0, 1}

\* the element geometry handed to intrinsicPermeability: sub-control volume
\* scv lies at pos, the other one inside the fine region if pos is outside
\* it and outside if pos is inside
ObsGeometry(scv, pos) ==
  [subContVol |-> [i \in ObsScvSet |->
     [global |-> IF i = scv THEN pos
                 ELSE IF isFineMaterial_(pos) THEN [x |-> Sc(30), y |-> Sc(20)]
                 ELSE [x |-> Sc(15), y |-> Sc(20)]]]]

InitObstacle ==
  /\ NoFluxData
  /\ wap = NoWap
  /\ asm = NoAsm
  /\ osp = NoOsp

ObsFrame == UNCHANGED <<inputs, members, locals, twin, niVars, objB, wap, asm>>

CallIntrinsicPermeability ==
  /\ \E pos \in ObsPosSet, scv \in ObsScvSet :
       osp' = [op |-> "intrinsicPermeability", pos |-> pos, scvIdx |-> scv,
               result |-> intrinsicPermeability(ObsGeometry(scv, pos), scv)]
  /\ ObsFrame

CallMaterialLawParamsAtPos ==
  /\ \E pos \in ObsPosSet :
       osp' = [op |-> "materialLawParamsAtPos", pos |-> pos, result |-> materialLawParamsAtPos(pos)]
  /\ ObsFrame

NextObstacle == CallIntrinsicPermeability \/ CallMaterialLawParamsAtPos

SpecObstacle == InitObstacle /\ [][NextObstacle]_vars

\* the region 10 <= x <= 20, 0 <= y <= 35
ObsRegion(pos) ==
  /\ ~SLess(pos.x, Sc(10)) /\ ~SLess(Sc(20), pos.x)
  /\ ~SLess(pos.y, Sc(0)) /\ ~SLess(Sc(35), pos.y)

\* C24: one region decides both lookups: intrinsicPermeability returns the
\* fine value 1e-15 and materialLawParamsAtPos the fine parameters exactly
\* when 10 <= x <= 20 and 0 <= y <= 35 (bounds included), otherwise the
\* coarse value 1e-12 and the coarse parameters; no position gets the fine
\* permeability with the coarse parameters or the reverse.
C24_OneRegionForBothLookups ==
  /\ osp.op = "intrinsicPermeability" =>
       /\ osp.result = IF ObsRegion(osp.pos) THEN 1 ELSE 1000
       /\ (osp.result = 1) <=> (materialLawParamsAtPos(osp.pos).name = "fineMaterialParams_")
  /\ osp.op = "materialLawParamsAtPos" =>
       /\ osp.result = IF ObsRegion(osp.pos) THEN fineMaterialParams_ ELSE coarseMaterialParams_
       /\ (osp.result.name = "fineMaterialParams_")
            <=> \A scv \in ObsScvSet : intrinsicPermeability(ObsGeometry(scv, osp.pos), scv) = 1

C24_Witness ==
  /\ osp.op = "intrinsicPermeability"
  /\ osp.pos = [x |-> Sc(20), y |-> Sc(35)]
  /\ osp.scvIdx = 1
  /\ osp.result = 1

====
